---- MODULE Spec2Model ----
(***************************************************************************)
(* A state-machine model of vcftk's dataset facade (src/src/vcftk/main.py): *)
(* VCFClass with its lazily built variant-metadata and info caches, the    *)
(* forward-only cyvcf2 stream it re-opens after every scan, the sample     *)
(* partitioning operations split/subset, and the Genotype value object.    *)
(***************************************************************************)
EXTENDS Integers, Sequences, FiniteSets, TLC

\* ------------------------------------------------------------------ bounds
NumRecords == 2      \* records in the backing VCF file
NumSamples == 2      \* sample columns in the backing VCF file
MaxFacades == 3      \* VCFClass objects alive at once (the root and its children)
MaxPloidy == 2       \* allele slots of a raw genotype call
AlleleSpan == 6      \* raw allele values range over -AlleleSpan .. AlleleSpan-1
MaxCalls == 3        \* calls in one run of the partitioning specification

Records == 1..NumRecords
Samples == 1..NumSamples
Facades == 1..MaxFacades
Root == 1

\* ------------------------------------------------------- the backing file
\* Three kinds of input file: every record carries its own ID, or every record
\* has the missing ID (so that IDs are empty and, from two records on,
\* duplicated), or every record carries its own ID and a CSQ annotation that
\* the metadata table holds as a column.
FileKinds == {"distinct", "missing", "annotated"}
RecID(kind, i) == IF kind = "missing" THEN <<".", 0>> ELSE <<"rs", i>>
\* Records 2k-1 and 2k share a position and differ in their ALT allele.
RecPOS(i) == (i + 1) \div 2
RecALT(i) == IF i % 2 = 1 THEN "A" ELSE "C"
\* The raw call cyvcf2 reports for record i and sample s: alleles, then phase.
RecGT(i, s) == <<i % 2, s % 2, (i + s) % 2 = 0>>
\* The CSQ value of record i, character by character: "A|1,B|2" for the odd
\* records, "A|1,A|1" (the same sub-record twice) for the even ones.
RecCSQ(i) ==
    IF i % 2 = 1 THEN <<"A", "|", "1", ",", "B", "|", "2">>
    ELSE <<"A", "|", "1", ",", "A", "|", "1">>
\* The field names the header's CSQ description lists: "Gene|Rank".
CSQFormat == <<"Gene", "|", "Rank">>

\* The sample table: one row per sample, one grouping column; NA is a null key.
GroupKeys == {"A", "B"}
NA == "NA"

VARIABLES
    vcf_file,     \* the kind of file at vcf_path (immutable)
    sample_info,  \* the root's sample table: sample -> value of the grouping column
    facades,      \* slot -> VCFClass object (or a free slot)
    last,         \* the last call: operation, facade, outcome and returned value
    gt_raw,       \* Genotype: the raw call handed to Genotype(li)
    gt,           \* Genotype: the object's slots
    gt_out,       \* Genotype: the outcome of str(genotype)
    ncalls        \* calls made so far (counted by the partitioning specification)

vars == <<vcf_file, sample_info, facades, last, gt_raw, gt, gt_out, ncalls>>
facade_vars == <<vcf_file, sample_info, facades, last, ncalls>>
gt_vars == <<gt_raw, gt, gt_out>>

\* ------------------------------------------------------------- the stream
\* VCF(path): a freshly opened stream stands before the first record and
\* materialises every sample column.
VCF == [pos |-> 0, samples |-> Samples]
\* vcf.set_samples(ids)
set_samples(v, ids) == [v EXCEPT !.samples = ids \cap Samples]
\* The records a `for var in vcf` loop still yields, in file order.
Remaining(v) == [k \in 1..(NumRecords - v.pos) |-> v.pos + k]
\* The stream after a loop that ran it to exhaustion.
Drained(v) == [v EXCEPT !.pos = NumRecords]
\* The stream after zip(vcf, ids) ran to its end: zip asks the stream first, so
\* it takes one record more than there are ids when the ids run out first.
ZipDrained(v, n) ==
    [v EXCEPT !.pos = IF v.pos + n + 1 <= NumRecords THEN v.pos + n + 1 ELSE NumRecords]

\* ----------------------------------------------------------- the Genotype
\* Python's seq[a]: indices -len .. len-1 are valid, negative ones count from the end.
PyInRange(seq, a) == -Len(seq) <= a /\ a < Len(seq)
PyIndex(seq, a) == IF a >= 0 THEN seq[a + 1] ELSE seq[Len(seq) + a + 1]
\* The literals "0123." and "/|" of Genotype.__str__, one character per element.
AlleleSymbols == <<"0", "1", "2", "3", ".">>
Separators == <<"/", "|">>
\* sep.join(parts), as a sequence of characters.
RECURSIVE Join(_, _)
Join(sep, parts) ==
    IF Len(parts) = 0 THEN <<>>
    ELSE IF Len(parts) = 1 THEN <<parts[1]>>
    ELSE <<parts[1], sep>> \o Join(sep, Tail(parts))

NoGenotype == [built |-> FALSE, alleles |-> <<>>, phased |-> FALSE]
NoOutcome == [done |-> FALSE, ok |-> TRUE, err |-> "", s |-> <<>>]
\* Genotype.__init__(li)
Genotype__init__(li) ==
    [built |-> TRUE, alleles |-> SubSeq(li, 1, Len(li) - 1), phased |-> li[Len(li)]]
\* A __str__ with the two separators the wrong way round.
Genotype__str__swapped(g) ==
    IF \E k \in 1..Len(g.alleles) : ~PyInRange(AlleleSymbols, g.alleles[k])
    THEN [done |-> TRUE, ok |-> FALSE, err |-> "IndexError", s |-> <<>>]
    ELSE [done |-> TRUE, ok |-> TRUE, err |-> "",
          s |-> Join(PyIndex(Separators, IF g.phased THEN 0 ELSE 1),
                     [k \in 1..Len(g.alleles) |-> PyIndex(AlleleSymbols, g.alleles[k])])]
\* Genotype.__str__(self)
Genotype__str__(g) ==
    IF \E k \in 1..Len(g.alleles) : ~PyInRange(AlleleSymbols, g.alleles[k])
    THEN [done |-> TRUE, ok |-> FALSE, err |-> "IndexError", s |-> <<>>]
    ELSE [done |-> TRUE, ok |-> TRUE, err |-> "",
          s |-> Join(PyIndex(Separators, IF g.phased THEN 1 ELSE 0),
                     [k \in 1..Len(g.alleles) |-> PyIndex(AlleleSymbols, g.alleles[k])])]

\* The raw calls tried: 1..MaxPloidy allele slots followed by the phase flag.
AlleleValues == (0 - AlleleSpan)..(AlleleSpan - 1)
RawCalls ==
    UNION {{al \o <<ph>> : al \in [1..n -> AlleleValues], ph \in BOOLEAN} : n \in 1..MaxPloidy}

\* ------------------------------------------------------------- the facade
NoRows == <<>>
FreeSlot ==
    [live |-> FALSE, samples |-> {}, vcf |-> VCF,
     has_variants |-> FALSE, variants_ |-> NoRows, variants_columns |-> {},
     has_var_info |-> FALSE, var_info_ |-> NoRows]

\* setup(vcf_path, sample_info=group): opens the path, restricts the stream to
\* the rows of the sample table and builds a VCFClass with nothing cached.
setup(ids) ==
    [live |-> TRUE, samples |-> set_samples(VCF, ids).samples,
     vcf |-> set_samples(VCF, ids),
     has_variants |-> FALSE, variants_ |-> NoRows, variants_columns |-> {},
     has_var_info |-> FALSE, var_info_ |-> NoRows]

\* A reset that re-opens the path and forgets the sample restriction.
reset_without_samples(fc) == [fc EXCEPT !.vcf = VCF]
reset_vcf_iterator(fc) == [fc EXCEPT !.vcf = set_samples(VCF, fc.samples)]

\* The columns of the metadata table: the positional fields, and the CSQ
\* values where the file's records carry them.
MetadataColumns(kind) ==
    {"CHROM", "POS", "ID", "REF", "ALT"} \cup (IF kind = "annotated" THEN {"CSQ"} ELSE {})
\* get_variants_metadata(vcf): one row per record the stream still yields.
get_variants_metadata(v) ==
    [k \in 1..Len(Remaining(v)) |->
        [rec |-> Remaining(v)[k], ID |-> RecID(vcf_file, Remaining(v)[k])]]
\* get_variants_info(vcf): one row of info fields per record the stream yields.
get_variants_info(v) == Remaining(v)
\* build_var_ID(variants, alleles): chromosome and position, plus the alleles.
build_var_ID(rows, alleles) ==
    [k \in 1..Len(rows) |->
        IF alleles THEN <<"chr", RecPOS(rows[k].rec), RecALT(rows[k].rec)>>
                   ELSE <<"chr", RecPOS(rows[k].rec)>>]
\* list(self._variants_.index)
IndexOf(rows) == [k \in 1..Len(rows) |-> rows[k].ID]

\* The record of a call: what it returned or that it raised.
\* rows: the returned table (or the records written), ids: its index (or the
\* returned id list), gts: the cells of a genotype matrix, made: the facades
\* returned, scanned: how many records the call took from the stream,
\* warnings: the warnings the call issued to its caller.
NoCall ==
    [op |-> "none", f |-> 0, ok |-> TRUE, err |-> "", rows |-> NoRows,
     ids |-> <<>>, gts |-> <<>>, made |-> {}, scanned |-> 0, warnings |-> {}]
Returned(op, f, rows, ids, made, scanned) ==
    [op |-> op, f |-> f, ok |-> TRUE, err |-> "", rows |-> rows,
     ids |-> ids, gts |-> <<>>, made |-> made, scanned |-> scanned, warnings |-> {}]
Raised(op, f, err, scanned) ==
    [op |-> op, f |-> f, ok |-> FALSE, err |-> err, rows |-> NoRows,
     ids |-> <<>>, gts |-> <<>>, made |-> {}, scanned |-> scanned, warnings |-> {}]

Live(f) == facades[f].live
\* One call on facade f: its object becomes fc and the call is recorded.
Call(f, fc, l) ==
    /\ facades' = [facades EXCEPT ![f] = fc]
    /\ last' = l
    /\ UNCHANGED <<vcf_file, sample_info, gt_vars>>

\* ids.duplicated().any()
HasDuplicates(ids) == \E i, j \in 1..Len(ids) : i < j /\ ids[i] = ids[j]
\* Warning(message) as a statement: the exception object is built and dropped,
\* it is neither raised nor handed to the warnings machinery, so the caller is
\* issued nothing.
Warning(message) == {}
\* The call record l of a call in which the duplicate check ran over ids.
DuplicateCheck(l, ids) ==
    [l EXCEPT !.warnings = IF HasDuplicates(ids)
                           THEN Warning("There are duplicate / empty variant IDs")
                           ELSE {}]

\* A variants that scans on every access instead of only on the first one.
variants_rescan(f) ==
    /\ Live(f)
    /\ LET fc == facades[f]
           built == [fc EXCEPT !.has_variants = TRUE,
                               !.variants_ = get_variants_metadata(fc.vcf),
                               !.variants_columns = MetadataColumns(vcf_file),
                               !.vcf = Drained(fc.vcf)]
       IN Call(f, reset_vcf_iterator(built),
               Returned("variants", f, built.variants_, IndexOf(built.variants_), {},
                        Len(Remaining(fc.vcf))))

\* VCFClass.variants (property)
variants(f) ==
    /\ Live(f)
    /\ LET fc == facades[f]
           built == IF fc.has_variants THEN fc
                    ELSE [fc EXCEPT !.has_variants = TRUE,
                                    !.variants_ = get_variants_metadata(fc.vcf),
                               !.variants_columns = MetadataColumns(vcf_file),
                                    !.vcf = Drained(fc.vcf)]
           ret == Returned("variants", f, built.variants_, IndexOf(built.variants_), {},
                           IF fc.has_variants THEN 0 ELSE Len(Remaining(fc.vcf)))
       IN Call(f, reset_vcf_iterator(built),
               IF fc.has_variants THEN ret ELSE DuplicateCheck(ret, IndexOf(built.variants_)))

\* VCFClass.var_ids (property): reads self._variants_, which exists only once
\* built. (The copy it keeps in self._var_ids_ is never read and is left out.)
var_ids(f) ==
    /\ Live(f)
    /\ LET fc == facades[f]
       IN IF fc.has_variants
          THEN Call(f, fc, Returned("var_ids", f, NoRows, IndexOf(fc.variants_), {}, 0))
          ELSE Call(f, fc, Raised("var_ids", f, "AttributeError", 0))

\* df["ID"] = ids on a frame of n rows: the lengths must agree, except that a
\* frame without rows takes its rows from the assigned list.
CanAssignColumn(n, ids) == n = Len(ids) \/ n = 0
AssignID(info, ids) ==
    [k \in 1..Len(ids) |-> [rec |-> IF Len(info) = 0 THEN 0 ELSE info[k], ID |-> ids[k]]]

\* A var_info that caches the parsed table before it assigns the ids, so that
\* a failing assignment leaves the table cached without them.
var_info_eager(f) ==
    /\ Live(f)
    /\ LET fc == facades[f]
           info == get_variants_info(fc.vcf)
           ids == IndexOf(fc.variants_)
           read == [fc EXCEPT !.vcf = Drained(fc.vcf), !.has_var_info = TRUE,
                              !.var_info_ = [k \in 1..Len(info) |->
                                                [rec |-> info[k], ID |-> <<".", 0>>]]]
           built == [read EXCEPT !.var_info_ = AssignID(info, ids)]
       IN IF fc.has_var_info
          THEN Call(f, reset_vcf_iterator(fc),
                    Returned("var_info", f, fc.var_info_, IndexOf(fc.var_info_), {}, 0))
          ELSE IF ~fc.has_variants
          THEN Call(f, read, Raised("var_info", f, "AttributeError", Len(info)))
          ELSE IF ~CanAssignColumn(Len(info), ids)
          THEN Call(f, read, Raised("var_info", f, "ValueError", Len(info)))
          ELSE Call(f, reset_vcf_iterator(built),
                    DuplicateCheck(Returned("var_info", f, built.var_info_,
                                            IndexOf(built.var_info_), {}, Len(info)),
                                   IndexOf(built.var_info_)))

\* VCFClass.var_info (property)
var_info(f) ==
    /\ Live(f)
    /\ LET fc == facades[f]
           info == get_variants_info(fc.vcf)
           read == [fc EXCEPT !.vcf = Drained(fc.vcf)]
           ids == IndexOf(fc.variants_)
           built == [read EXCEPT !.has_var_info = TRUE, !.var_info_ = AssignID(info, ids)]
       IN IF fc.has_var_info
          THEN Call(f, reset_vcf_iterator(fc),
                    Returned("var_info", f, fc.var_info_, IndexOf(fc.var_info_), {}, 0))
          ELSE IF ~fc.has_variants
          THEN Call(f, read, Raised("var_info", f, "AttributeError", Len(info)))
          ELSE IF ~CanAssignColumn(Len(info), ids)
          THEN Call(f, read, Raised("var_info", f, "ValueError", Len(info)))
          ELSE Call(f, reset_vcf_iterator(built),
                    DuplicateCheck(Returned("var_info", f, built.var_info_,
                                            IndexOf(built.var_info_), {}, Len(info)),
                                   IndexOf(built.var_info_)))

\* VCFClass.create_IDs(alleles)
create_IDs(f, alleles) ==
    /\ Live(f)
    /\ LET fc == facades[f]
           ids == build_var_ID(fc.variants_, alleles)
           reindexed == [k \in 1..Len(fc.variants_) |->
                            [fc.variants_[k] EXCEPT !.ID = ids[k]]]
       IN IF ~fc.has_variants
          THEN Call(f, fc, Raised("create_IDs", f, "AttributeError", 0))
          \* set_index("ID", drop=True): the ids become the index and the
          \* column they were assigned to is removed from the table
          ELSE Call(f, [fc EXCEPT !.variants_ = reindexed,
                                  !.variants_columns = fc.variants_columns \ {"ID"}],
                    Returned("create_IDs", f, NoRows, ids, {}, 0))

\* get_var_format_from_vcf(vcf, format, allele): one row per record the stream yields.
get_var_format_from_vcf(v) == get_variants_metadata(v)

\* VCFClass.format(format, allele)
format(f) ==
    /\ Live(f)
    /\ LET fc == facades[f]
           vars_format == get_var_format_from_vcf(fc.vcf)
       IN Call(f, reset_vcf_iterator([fc EXCEPT !.vcf = Drained(fc.vcf)]),
               Returned("format", f, vars_format, IndexOf(vars_format), {},
                        Len(vars_format)))

\* zip(self.vcf, self.var_ids): the i-th record the stream yields with the i-th id.
Min(a, b) == IF a <= b THEN a ELSE b
Zip(v, ids) ==
    [k \in 1..Min(Len(Remaining(v)), Len(ids)) |-> [rec |-> Remaining(v)[k], ID |-> ids[k]]]
\* How many records zip took from the stream.
ZipTaken(v, ids) == ZipDrained(v, Len(ids)).pos - v.pos

\* The var_ids argument of save_vcf: None, or a list of ids.
NoneArg == [none |-> TRUE, ids |-> {}]
SaveArgs(fc) ==
    {NoneArg} \cup
    {[none |-> FALSE, ids |-> S] :
        S \in SUBSET ({fc.variants_[k].ID : k \in 1..Len(fc.variants_)}
                      \cup {RecID(vcf_file, 1)})}

\* The records save_vcf hands to the writer, as written.
Written(v, ids, add_ids, vars_to_save) ==
    LET Keep(p) == p.ID \in vars_to_save
        kept == SelectSeq(Zip(v, ids), Keep)
    IN [k \in 1..Len(kept) |->
           [rec |-> kept[k].rec,
            ID |-> IF add_ids THEN kept[k].ID ELSE RecID(vcf_file, kept[k].rec)]]

\* VCFClass.save_vcf(save_path, add_ids, var_ids): the records handed to the
\* writer are the call's result.
save_vcf(f, add_ids, arg) ==
    /\ Live(f)
    /\ LET fc == facades[f]
           ids == IndexOf(fc.variants_)
           vars_to_save == IF arg.none THEN {ids[k] : k \in 1..Len(ids)} ELSE arg.ids
           out == Written(fc.vcf, ids, add_ids, vars_to_save)
       IN IF ~fc.has_variants
          THEN Call(f, fc, Raised("save_vcf", f, "AttributeError", 0))
          ELSE Call(f, reset_vcf_iterator([fc EXCEPT !.vcf = ZipDrained(fc.vcf, Len(ids))]),
                    Returned("save_vcf", f, out, IndexOf(out), {}, ZipTaken(fc.vcf, ids)))

\* pd.DataFrame(var_stats): the statistics are dicts keyed by id, so ids that
\* repeat keep their first place and their last record's values.
StatsTable(pairs) ==
    LET First(k) == \A j \in 1..(k - 1) : pairs[j].ID # pairs[k].ID
        LastOf(k) == CHOOSE j \in k..Len(pairs) :
                        /\ pairs[j].ID = pairs[k].ID
                        /\ \A i \in (j + 1)..Len(pairs) : pairs[i].ID # pairs[k].ID
        Idx == [k \in 1..Len(pairs) |-> k]
        firsts == SelectSeq(Idx, First)
    IN [k \in 1..Len(firsts) |-> [rec |-> pairs[LastOf(firsts[k])].rec, ID |-> pairs[firsts[k]].ID]]

\* VCFClass.get_var_stats(add_to_info)
get_var_stats(f, add_to_info) ==
    /\ Live(f)
    /\ LET fc == facades[f]
           ids == IndexOf(fc.variants_)
           var_stats == StatsTable(Zip(fc.vcf, ids))
           scanned == ZipTaken(fc.vcf, ids)
           read == [fc EXCEPT !.vcf = ZipDrained(fc.vcf, Len(ids))]
       IN IF ~fc.has_variants
          THEN Call(f, fc, Raised("get_var_stats", f, "AttributeError", 0))
          ELSE IF add_to_info
          \* the right-hand side reads self.variants (which resets the stream);
          \* the property has no setter, so the assignment raises
          THEN Call(f, reset_vcf_iterator(read),
                    Raised("get_var_stats", f,
                           IF HasDuplicates(ids) THEN "InvalidIndexError" ELSE "AttributeError",
                           scanned))
          ELSE Call(f, reset_vcf_iterator(read),
                    Returned("get_var_stats", f, var_stats, IndexOf(var_stats), {}, scanned))

\* [Genotype(i) for i in var.genotypes], for every record the stream yields.
GenotypeRows(v) ==
    [k \in 1..Len(Remaining(v)) |->
        [s \in v.samples |-> Genotype__init__(RecGT(Remaining(v)[k], s))]]
\* pd.DataFrame(data, index=ids, ...): rows and index must agree in number,
\* except that empty data gives a frame of empty cells over the index.
CanFrame(n, ids) == n = Len(ids) \/ n = 0

\* VCFClass.show_genotypes()
show_genotypes(f) ==
    /\ Live(f)
    /\ LET fc == facades[f]
           genotypes == GenotypeRows(fc.vcf)
           read == [fc EXCEPT !.vcf = Drained(fc.vcf)]
           ids == IndexOf(fc.variants_)
       IN IF ~fc.has_variants
          THEN Call(f, read, Raised("show_genotypes", f, "AttributeError", Len(genotypes)))
          ELSE IF ~CanFrame(Len(genotypes), ids)
          THEN Call(f, read, Raised("show_genotypes", f, "ValueError", Len(genotypes)))
          ELSE Call(f, reset_vcf_iterator(read),
                    [Returned("show_genotypes", f, NoRows, ids, {}, Len(genotypes))
                        EXCEPT !.gts = genotypes])

\* VCFClass.reset_vcf_iterator() called by the user of the facade.
reset_vcf_iterator_call(f) ==
    /\ Live(f)
    /\ Call(f, reset_vcf_iterator(facades[f]),
            Returned("reset_vcf_iterator", f, NoRows, <<>>, {}, 0))

\* ------------------------------------------------- the VEP annotations
\* str.split(sep): the pieces of s between the occurrences of sep.
RECURSIVE Split(_, _)
Split(s, sep) ==
    IF \A k \in 1..Len(s) : s[k] # sep
    THEN <<s>>
    ELSE LET k == CHOOSE i \in 1..Len(s) : s[i] = sep /\ \A j \in 1..(i - 1) : s[j] # sep
         IN <<SubSeq(s, 1, k - 1)>> \o Split(SubSeq(s, k + 1, Len(s)), sep)
\* The field names, from the header's description of CSQ.
csq_info == Split(CSQFormat, "|")
\* self.variants["CSQ"].str.split(",").explode(): one row per sub-record,
\* under the id of the variant it came from.
RECURSIVE Explode(_)
Explode(rows) ==
    IF rows = <<>>
    THEN <<>>
    ELSE LET r == Head(rows)
             pieces == Split(RecCSQ(r.rec), ",")
         IN [k \in 1..Len(pieces) |-> [ID |-> r.ID, csq |-> pieces[k]]]
            \o Explode(Tail(rows))
\* csq_data.str.split("|", expand=True): each sub-record split into its
\* fields; the frame is as wide as the longest split, and has no column at
\* all when there is no row.
SplitFields(csq_data) ==
    [k \in 1..Len(csq_data) |-> [ID |-> csq_data[k].ID, pieces |-> Split(csq_data[k].csq, "|")]]
SplitWidth(split) ==
    IF split = <<>> THEN 0
    ELSE CHOOSE w \in {Len(split[k].pieces) : k \in 1..Len(split)} :
            \A k \in 1..Len(split) : Len(split[k].pieces) <= w
\* vep_annotations.columns = csq_info: the names must be as many as the columns.
CanNameColumns(split) == SplitWidth(split) = Len(csq_info)
NameColumns(split) ==
    [k \in 1..Len(split) |->
        [ID |-> split[k].ID,
         fields |-> [c \in 1..Len(csq_info) |-> <<csq_info[c], split[k].pieces[c]>>]]]
\* reset_index().drop_duplicates().set_index("ID"): a row equal to an earlier
\* one, id included, is dropped.
drop_duplicates(rows) ==
    LET First(k) == \A j \in 1..(k - 1) : rows[j] # rows[k]
        firsts == SelectSeq([k \in 1..Len(rows) |-> k], First)
    IN [k \in 1..Len(firsts) |-> rows[firsts[k]]]

\* An extract_vep_annotations that looks for the column in a table it parses
\* from the stream itself, and does not reset the stream afterwards.
extract_vep_annotations_scan(f, add_to_info) ==
    /\ Live(f)
    /\ LET fc == facades[f]
           read == [fc EXCEPT !.vcf = Drained(fc.vcf)]
           scanned == Len(Remaining(fc.vcf))
           vep_annotations == SplitFields(Explode(get_variants_metadata(fc.vcf)))
       IN IF "CSQ" \notin MetadataColumns(vcf_file)
          THEN Call(f, read, Raised("extract_vep_annotations", f, "ValueError", scanned))
          ELSE IF ~CanNameColumns(vep_annotations)
          THEN Call(f, read, Raised("extract_vep_annotations", f, "ValueError", scanned))
          ELSE Call(f, read, Raised("extract_vep_annotations", f, "NameError", scanned))

\* VCFClass.extract_vep_annotations(add_to_info)
extract_vep_annotations(f, add_to_info) ==
    /\ Live(f)
    /\ LET fc == facades[f]
           \* self.variants: builds the cache on first access, resets the stream
           built == IF fc.has_variants THEN fc
                    ELSE [fc EXCEPT !.has_variants = TRUE,
                                    !.variants_ = get_variants_metadata(fc.vcf),
                               !.variants_columns = MetadataColumns(vcf_file),
                                    !.vcf = Drained(fc.vcf)]
           got == reset_vcf_iterator(built)
           scanned == IF fc.has_variants THEN 0 ELSE Len(Remaining(fc.vcf))
           vep_annotations == SplitFields(Explode(got.variants_))
       IN IF "CSQ" \notin got.variants_columns
          THEN Call(f, got, Raised("extract_vep_annotations", f, "ValueError", scanned))
          \* the column is exploded and split; naming the columns fails when
          \* their number is not that of the names (a table without rows)
          ELSE IF ~CanNameColumns(vep_annotations)
          THEN Call(f, got, Raised("extract_vep_annotations", f, "ValueError", scanned))
          \* the next statement then reads np.nan, and np is not a name of
          \* the module
          ELSE Call(f, got, Raised("extract_vep_annotations", f, "NameError", scanned))

\* ------------------------------------------------------ split and subset
FreeSlots == {g \in Facades : ~facades[g].live}
\* The free slots in ascending order.
FreeSeq == LET IsFree(g) == g \in FreeSlots
           IN SelectSeq([g \in 1..MaxFacades |-> g], IsFree)
\* The order in which groupby yields the keys.
KeyOrder == <<"A", "B">>
\* A grouping that keeps the null key as a group of its own.
GroupsOf_keepna(fc) ==
    LET Present(key) == \E s \in fc.samples : sample_info[s] = key
    IN SelectSeq(KeyOrder \o <<NA>>, Present)
\* self.sample_info.groupby(by=columns): the distinct non-null keys, sorted.
GroupsOf(fc) ==
    LET Present(key) == \E s \in fc.samples : sample_info[s] = key
    IN SelectSeq(KeyOrder, Present)
GroupMembers(fc, key) == {s \in fc.samples : sample_info[s] = key}

\* VCFClass._split_by_samples(columns)
_split_by_samples(f) ==
    LET fc == facades[f]
        groups == GroupsOf(fc)
        slot(j) == FreeSeq[j]
        made == {slot(j) : j \in 1..Len(groups)}
    IN /\ Len(groups) <= Len(FreeSeq)
       /\ facades' = [g \in Facades |->
                        IF g \in made
                        THEN LET j == CHOOSE i \in 1..Len(groups) : slot(i) = g
                             IN setup(GroupMembers(fc, groups[j]))
                        ELSE facades[g]]
       /\ last' = Returned("split", f, NoRows, <<>>, made, 0)
       /\ UNCHANGED <<vcf_file, sample_info, gt_vars>>

\* A split that falls back to the sample mode whatever `by` is.
split_fallback(f, by) ==
    /\ Live(f)
    /\ _split_by_samples(f)

\* VCFClass.split(by, columns)
split(f, by) ==
    /\ Live(f)
    /\ IF by = "samples" THEN _split_by_samples(f)
       ELSE IF by = "variants"
       THEN Call(f, facades[f], Raised("split", f, "ValueError", 0))
       \* no branch for any other mode: the call falls through and returns None
       ELSE Call(f, facades[f], Returned("split", f, NoRows, <<>>, {}, 0))

\* A subset that narrows the parent's own stream and hands it to the new facade.
_subset_samples_view(f, ids) ==
    LET fc == facades[f]
        shared == set_samples(fc.vcf, ids)
    IN IF ~(ids \subseteq fc.samples)
       THEN Call(f, fc, Raised("subset", f, "KeyError", 0))
       ELSE /\ FreeSeq # <<>>
            /\ facades' = [facades EXCEPT ![FreeSeq[1]] = [setup(ids) EXCEPT !.vcf = shared],
                                          ![f] = [fc EXCEPT !.vcf = shared]]
            /\ last' = Returned("subset", f, NoRows, <<>>, {FreeSeq[1]}, 0)
            /\ UNCHANGED <<vcf_file, sample_info, gt_vars>>

\* VCFClass._subset_samples(ids)
_subset_samples(f, ids) ==
    LET fc == facades[f]
    IN IF ~(ids \subseteq fc.samples)
       THEN Call(f, fc, Raised("subset", f, "KeyError", 0))
       ELSE /\ FreeSeq # <<>>
            /\ facades' = [facades EXCEPT ![FreeSeq[1]] = setup(ids)]
            /\ last' = Returned("subset", f, NoRows, <<>>, {FreeSeq[1]}, 0)
            /\ UNCHANGED <<vcf_file, sample_info, gt_vars>>

\* VCFClass.subset(what, ids)
subset(f, what, ids) ==
    /\ Live(f)
    /\ IF what = "samples" THEN _subset_samples(f, ids)
       ELSE IF what = "variants"
       THEN Call(f, facades[f], Raised("subset", f, "ValueError", 0))
       \* no branch for any other mode: the call falls through and returns None
       ELSE Call(f, facades[f], Returned("subset", f, NoRows, <<>>, {}, 0))

\* The modes handed to split and subset: the two the code names, and one it
\* does not.
Modes == {"samples", "variants", "other"}
\* The id lists handed to subset: non-empty sets of sample ids.
IdLists == (SUBSET Samples) \ {{}}

\* ------------------------------------------------------- Genotype actions
\* Genotype(li): one object is built in a run
Genotype(li) ==
    /\ ~gt.built
    /\ gt_raw' = li
    /\ gt' = Genotype__init__(li)
    /\ gt_out' = NoOutcome
    /\ UNCHANGED facade_vars

\* str(genotype)
GenotypeStr ==
    /\ gt.built
    /\ ~gt_out.done
    /\ gt_out' = Genotype__str__(gt)
    /\ UNCHANGED <<gt_raw, gt, facade_vars>>

\* ------------------------------------------------------ specifications
\* One facade, set up over a sample table that lists any non-empty part of the
\* file's samples, under every sequence of the calls that act on the facade
\* itself (split and subset only read it and build other objects).
Init ==
    /\ vcf_file \in FileKinds
    /\ sample_info = [s \in Samples |-> "A"]
    /\ \E roster \in IdLists :
          facades = [f \in Facades |-> IF f = Root THEN setup(roster) ELSE FreeSlot]
    /\ last = NoCall
    /\ gt_raw = <<>>
    /\ gt = NoGenotype
    /\ gt_out = NoOutcome
    /\ ncalls = 0

Uncounted(A) == A /\ UNCHANGED ncalls

Next ==
    \/ \E f \in Facades : Uncounted(variants(f))
    \/ \E f \in Facades : Uncounted(var_ids(f))
    \/ \E f \in Facades : Uncounted(var_info(f))
    \/ \E f \in Facades, alleles \in BOOLEAN : Uncounted(create_IDs(f, alleles))
    \/ \E f \in Facades : Uncounted(format(f))
    \/ \E f \in Facades, add_ids \in BOOLEAN :
          \E arg \in SaveArgs(facades[f]) : Uncounted(save_vcf(f, add_ids, arg))
    \/ \E f \in Facades, add_to_info \in BOOLEAN : Uncounted(get_var_stats(f, add_to_info))
    \/ \E f \in Facades : Uncounted(show_genotypes(f))
    \/ \E f \in Facades, add_to_info \in BOOLEAN :
          Uncounted(extract_vep_annotations(f, add_to_info))
    \/ \E f \in Facades : Uncounted(reset_vcf_iterator_call(f))

Spec == Init /\ [][Next]_vars

\* The sample tables tried: every assignment of keys and nulls to the samples,
\* up to the order of the samples (the rows are sorted by key, nulls last).
KeyRank(key) == IF key = "A" THEN 1 ELSE IF key = "B" THEN 2 ELSE 3
SampleTables ==
    {t \in [Samples -> GroupKeys \cup {NA}] :
        \A s, u \in Samples : s < u => KeyRank(t[s]) <= KeyRank(t[u])}

\* A root facade over all samples of a file with distinct ids, under every
\* sample table, and the facades split and subset derive from it, under every
\* sequence of at most MaxCalls calls on any of them.
InitPartition ==
    /\ vcf_file = "distinct"
    /\ sample_info \in SampleTables
    /\ facades = [f \in Facades |-> IF f = Root THEN setup(Samples) ELSE FreeSlot]
    /\ last = NoCall
    /\ gt_raw = <<>>
    /\ gt = NoGenotype
    /\ gt_out = NoOutcome
    /\ ncalls = 0

Counted(A) == ncalls < MaxCalls /\ A /\ ncalls' = ncalls + 1

NextPartition ==
    \/ \E f \in Facades : Counted(variants(f))
    \/ \E f \in Facades : Counted(var_ids(f))
    \/ \E f \in Facades : Counted(var_info(f))
    \/ \E f \in Facades, alleles \in BOOLEAN : Counted(create_IDs(f, alleles))
    \/ \E f \in Facades : Counted(format(f))
    \/ \E f \in Facades, add_ids \in BOOLEAN :
          \E arg \in SaveArgs(facades[f]) : Counted(save_vcf(f, add_ids, arg))
    \/ \E f \in Facades, add_to_info \in BOOLEAN : Counted(get_var_stats(f, add_to_info))
    \/ \E f \in Facades : Counted(show_genotypes(f))
    \/ \E f \in Facades, add_to_info \in BOOLEAN :
          Counted(extract_vep_annotations(f, add_to_info))
    \/ \E f \in Facades : Counted(reset_vcf_iterator_call(f))
    \/ \E f \in Facades, by \in Modes : Counted(split(f, by))
    \/ \E f \in Facades, what \in Modes, ids \in IdLists : Counted(subset(f, what, ids))

SpecPartition == InitPartition /\ [][NextPartition]_vars

\* The Genotype value object on its own: any raw call, built and then printed.
InitGenotype ==
    /\ vcf_file = "distinct"
    /\ sample_info = [s \in Samples |-> "A"]
    /\ facades = [f \in Facades |-> IF f = Root THEN setup(Samples) ELSE FreeSlot]
    /\ last = NoCall
    /\ gt_raw = <<>>
    /\ gt = NoGenotype
    /\ gt_out = NoOutcome
    /\ ncalls = 0

NextGenotype ==
    \/ \E li \in RawCalls : Genotype(li)
    \/ GenotypeStr

SpecGenotype == InitGenotype /\ [][NextGenotype]_vars

\* ------------------------------------------------------------ properties
Pos(f) == facades[f].vcf.pos
\* The table a full pass over the whole file builds.
FullTable == [k \in 1..NumRecords |-> [rec |-> k, ID |-> RecID(vcf_file, k)]]
\* The metadata table a facade reports: the cached one, or the one its next
\* access to variants would build.
TableOf(fc) == IF fc.has_variants THEN fc.variants_ ELSE get_variants_metadata(fc.vcf)
MetadataOps == {"variants", "var_ids", "var_info"}
ResettingOps == {"variants", "var_info", "format", "get_var_stats", "show_genotypes", "save_vcf"}

\* C1: on a facade whose metadata cache is unbuilt, the first access to any of
\* variants, var_info and var_ids returns instead of failing, leaves the cache
\* built from a full pass and the stream reset to its first record.
C1_FirstAccessBuilds ==
    [][\A f \in Facades :
          (Live(f) /\ ~facades[f].has_variants /\ Pos(f) = 0
             /\ last'.f = f /\ last'.op \in MetadataOps)
          => /\ last'.ok
             /\ last'.scanned = NumRecords
             /\ facades'[f].has_variants
             /\ facades'[f].variants_ = FullTable
             /\ facades'[f].vcf.pos = 0]_vars

\* C2: in every reachable state a built metadata cache holds exactly one row
\* per record of the backing stream, in stream order.
C2_BuiltCacheHasEveryRecord ==
    \A f \in Facades :
       (Live(f) /\ facades[f].has_variants)
       => /\ Len(facades[f].variants_) = NumRecords
          /\ \A k \in 1..NumRecords : facades[f].variants_[k].rec = k

\* C3: when variants, var_info, format, get_var_stats, show_genotypes or
\* save_vcf has returned, the facade's stream stands before the first record
\* and is restricted to the facade's sample roster, so the next pass yields
\* every record.
C3_ReturnResetsStream ==
    (last.ok /\ last.op \in ResettingOps)
    => /\ Pos(last.f) = 0
       /\ facades[last.f].vcf.samples = facades[last.f].samples
       /\ Len(Remaining(facades[last.f].vcf)) = NumRecords
C3_Witness ==
    /\ last.ok /\ last.op = "show_genotypes"
    /\ last.scanned = NumRecords
    /\ facades[last.f].samples # Samples
    /\ Pos(last.f) = 0

\* C4: once the metadata cache is built it stays built, and every later access
\* to variants returns the cached table as it is, taking no record from the
\* stream and leaving the table unchanged.
C4_CachedAccessDoesNotRescan ==
    [][\A f \in Facades :
          (Live(f) /\ facades[f].has_variants)
          => /\ facades'[f].has_variants
             /\ (last'.f = f /\ last'.op = "variants")
                => /\ last'.ok
                   /\ last'.scanned = 0
                   /\ last'.rows = facades[f].variants_
                   /\ facades'[f].variants_ = facades[f].variants_]_vars
C4_Witness ==
    /\ last.ok /\ last.op = "variants" /\ last.scanned = 0
    /\ Len(last.rows) = NumRecords
    /\ last.ids # IndexOf(FullTable)

\* C5: subset(S), for every subset S of the parent's samples and every parent
\* state (cache unbuilt or built, before or after create_IDs), returns a facade
\* whose roster is S and whose metadata table, index included, is identical
\* to the parent's. Stated for parents whose stream stands at the first record
\* and whose table has every record.
C5_SubsetKeepsRosterAndTable ==
    [][\A p \in Facades, S \in IdLists :
          (Live(p) /\ S \subseteq facades[p].samples
             /\ Pos(p) = 0 /\ Len(TableOf(facades[p])) = NumRecords
             /\ Counted(subset(p, "samples", S)))
          => \E c \in Facades :
                /\ last'.made = {c}
                /\ facades'[c].samples = S
                /\ TableOf(facades'[c]) = TableOf(facades[p])]_vars

\* The samples of a facade whose grouping key is not null.
Keyed(fc) == {s \in fc.samples : sample_info[s] # NA}
KeysOf(fc) == {sample_info[s] : s \in Keyed(fc)}
Disjoint(made) ==
    \A c, d \in made : c # d => facades'[c].samples \cap facades'[d].samples = {}

\* C6 (as stated): split by samples returns one facade per distinct non-null
\* key, the rosters of the returned facades are pairwise disjoint and their
\* union is the parent's roster, and each returned facade reports the
\* variants of the parent's source.
C6_SplitPartitionsRoster ==
    [][\A p \in Facades :
          (last'.f = p /\ last'.op = "split" /\ last'.ok /\ Counted(split(p, "samples")))
          => /\ Cardinality(last'.made) = Cardinality(KeysOf(facades[p]))
             /\ UNION {facades'[c].samples : c \in last'.made} = facades[p].samples
             /\ Disjoint(last'.made)
             /\ \A c \in last'.made : TableOf(facades'[c]) = FullTable]_vars

\* C6 (amended): split by samples returns one facade per distinct non-null
\* key, whose roster is the parent's samples having that key; the rosters are
\* pairwise disjoint and their union is the set of the parent's samples whose
\* key is not null; each returned facade reports the variants of the
\* parent's source.
C6_SplitPartitionsKeyedSamples ==
    [][\A p \in Facades :
          (last'.f = p /\ last'.op = "split" /\ last'.ok /\ Counted(split(p, "samples")))
          => /\ Cardinality(last'.made) = Cardinality(KeysOf(facades[p]))
             /\ \A c \in last'.made : \E key \in KeysOf(facades[p]) :
                   facades'[c].samples = {s \in facades[p].samples : sample_info[s] = key}
             /\ UNION {facades'[c].samples : c \in last'.made} = Keyed(facades[p])
             /\ Disjoint(last'.made)
             /\ \A c \in last'.made : TableOf(facades'[c]) = FullTable]_vars
C6_Witness ==
    /\ last.ok /\ last.op = "split"
    /\ Cardinality(last.made) = 2
    /\ \A c \in last.made : facades[c].live /\ facades[c].samples # {}

\* C7: a facade returned by split or subset starts with its own stream at the
\* first record and nothing cached, the call that returns it leaves its parent
\* as it was, and a call on one facade leaves every other facade as it was.
C7_FacadesAreIndependent ==
    [][/\ (last'.ok /\ last'.op \in {"split", "subset"})
          => /\ facades'[last'.f] = facades[last'.f]
             /\ \A c \in last'.made :
                   /\ ~facades[c].live /\ facades'[c].live
                   /\ facades'[c].vcf.pos = 0
                   /\ ~facades'[c].has_variants /\ ~facades'[c].has_var_info
       /\ \A g \in Facades :
             (g # last'.f /\ g \notin last'.made) => facades'[g] = facades[g]]_vars
C7_Witness ==
    /\ last.op = "variants" /\ last.f # Root
    /\ facades[last.f].has_variants
    /\ facades[Root].vcf.pos = NumRecords
    /\ ~facades[Root].has_variants
    /\ \E g \in Facades : g # last.f /\ g # Root /\ facades[g].live /\ ~facades[g].has_variants

\* The string the claims give a raw call: the allele digits in order, "." for
\* an allele outside 0..3, separated by "|" when phased and by "/" when not.
Digit(a) == CASE a = 0 -> "0" [] a = 1 -> "1" [] a = 2 -> "2" [] a = 3 -> "3" [] OTHER -> "."
Rendered(li) ==
    LET n == Len(li) - 1
    IN [k \in 1..(2 * n - 1) |->
           IF k % 2 = 1 THEN Digit(li[(k + 1) \div 2])
           ELSE IF li[Len(li)] THEN "|" ELSE "/"]
InRange(li) == \A k \in 1..(Len(li) - 1) : li[k] \in 0..3

\* C8: for a raw call with an allele outside {0,1,2,3}, taking the string of
\* its Genotype never raises and renders every such allele as ".".
C8_OutOfRangeIsMissing ==
    (gt_out.done /\ ~InRange(gt_raw))
    => (gt_out.ok /\ gt_out.s = Rendered(gt_raw))

\* C9: for a raw call whose alleles are all in {0,1,2,3}, the Genotype holds
\* the leading elements as alleles and the last element as phased, and its
\* string is the allele digits in order joined by "|" if phased, by "/" if not.
C9_InRangeRoundTrip ==
    (gt.built /\ InRange(gt_raw))
    => /\ Len(gt.alleles) = Len(gt_raw) - 1
       /\ \A k \in 1..Len(gt.alleles) : gt.alleles[k] = gt_raw[k]
       /\ gt.phased = gt_raw[Len(gt_raw)]
       /\ gt_out.done => (gt_out.ok /\ gt_out.s = Rendered(gt_raw))
C9_Witness ==
    /\ gt_out.done /\ gt_out.ok
    /\ gt_raw = <<1, 1, FALSE>>
    /\ gt_out.s = <<"1", "/", "1">>

\* The records the claim has save_vcf write: every record of the stream whose
\* in-memory id is selected (all of them when var_ids is omitted), in stream
\* order, carrying the in-memory id when add_ids is set.
Selected(ids, arg) ==
    LET Pick(i) == arg.none \/ (i <= Len(ids) /\ ids[i] \in arg.ids)
    IN SelectSeq([i \in 1..NumRecords |-> i], Pick)
ExpectedWritten(ids, add_ids, arg) ==
    [k \in 1..Len(Selected(ids, arg)) |->
        LET i == Selected(ids, arg)[k]
        IN [rec |-> i,
            ID |-> IF add_ids /\ i <= Len(ids) THEN ids[i] ELSE RecID(vcf_file, i)]]

\* C10: on a facade whose cache is built, save_vcf writes, in stream order,
\* exactly the records whose in-memory id is in var_ids (all records when it
\* is omitted), with the in-memory id when add_ids is set, and leaves the
\* cached metadata unchanged and the stream replaying every record.
C10_SaveWritesSelected ==
    [][\A f \in Facades, add_ids \in BOOLEAN :
          \A arg \in SaveArgs(facades[f]) :
             (Live(f) /\ facades[f].has_variants /\ Uncounted(save_vcf(f, add_ids, arg)))
             => /\ last'.ok
                /\ last'.rows = ExpectedWritten(IndexOf(facades[f].variants_), add_ids, arg)
                /\ facades'[f].variants_ = facades[f].variants_
                /\ facades'[f].vcf.pos = 0]_vars

\* C11: on a facade whose cache is built (with every record, the stream at its
\* first record), get_var_stats with add_to_info set completes without error,
\* returns one row of statistics per variant id and leaves the cached table
\* with the same rows and the stream reset.
C11_StatsMergeCompletes ==
    [][\A f \in Facades :
          (Live(f) /\ facades[f].has_variants /\ Pos(f) = 0
             /\ Len(facades[f].variants_) = NumRecords
             /\ Uncounted(get_var_stats(f, TRUE)))
          => /\ last'.ok
             /\ last'.ids = IndexOf(StatsTable(facades[f].variants_))
             /\ IndexOf(facades'[f].variants_) = IndexOf(facades[f].variants_)
             /\ facades'[f].vcf.pos = 0]_vars

\* The records behind a table's rows, in row order.
RecordsOf(rows) == [k \in 1..Len(rows) |-> rows[k].rec]

\* C12: a built metadata table changes only in a create_IDs call, and that
\* call changes only the index of the table: its columns, its row count and
\* its row order stay, it scans nothing and leaves the stream where it was,
\* it makes var_ids the sequence it returns, and the ids it would build from
\* the table it leaves are again that sequence.
C12_CreateIDsOnlyReindexes ==
    [][\A f \in Facades :
          (Live(f) /\ facades[f].has_variants)
          => /\ facades'[f].has_variants
             /\ (<<facades'[f].variants_, facades'[f].variants_columns>>
                    # <<facades[f].variants_, facades[f].variants_columns>>
                   => last'.op = "create_IDs" /\ last'.f = f /\ last'.ok)
             /\ \A alleles \in BOOLEAN :
                   Uncounted(create_IDs(f, alleles))
                   => /\ last'.ok
                      /\ last'.scanned = 0
                      /\ facades'[f].vcf = facades[f].vcf
                      /\ RecordsOf(facades'[f].variants_) = RecordsOf(facades[f].variants_)
                      /\ facades'[f].variants_columns = facades[f].variants_columns
                      /\ IndexOf(facades'[f].variants_) = last'.ids
                      /\ build_var_ID(facades'[f].variants_, alleles) = last'.ids
                      /\ facades'[f].has_var_info = facades[f].has_var_info
                      /\ facades'[f].var_info_ = facades[f].var_info_]_vars

\* The two caches of a facade object.
MetadataCache(fc) == <<fc.has_variants, fc.variants_, fc.variants_columns>>
InfoCache(fc) == <<fc.has_var_info, fc.var_info_>>
\* The last call took records from the stream of its facade and raised.
ScanFailed(l) == l.op # "none" /\ ~l.ok /\ l.scanned > 0

\* C13 as stated: whenever a call that scans the stream raises, the metadata
\* cache and the info cache of its facade are exactly what they were before
\* the call (unbuilt stays unbuilt, built stays built and unchanged).
C13_FailureLeavesCaches ==
    [][\A f \in Facades :
          (Live(f) /\ ScanFailed(last') /\ last'.f = f)
          => /\ MetadataCache(facades'[f]) = MetadataCache(facades[f])
             /\ InfoCache(facades'[f]) = InfoCache(facades[f])]_vars
\* C13, amended: whenever a call that scans the stream raises, the info cache
\* is what it was before, and the metadata cache is what it was before unless
\* the call is extract_vep_annotations on an unbuilt cache, whose column check
\* reads variants and so builds the cache in full (one row per record the
\* stream yielded) before it raises; no cache is left partially populated.
C13_FailureLeavesCachesWhole ==
    [][\A f \in Facades :
          (Live(f) /\ ScanFailed(last') /\ last'.f = f)
          => /\ InfoCache(facades'[f]) = InfoCache(facades[f])
             /\ \/ MetadataCache(facades'[f]) = MetadataCache(facades[f])
                \/ /\ last'.op = "extract_vep_annotations"
                   /\ ~facades[f].has_variants
                   /\ MetadataCache(facades'[f])
                        = <<TRUE, get_variants_metadata(facades[f].vcf),
                            MetadataColumns(vcf_file)>>]_vars
\* A call scanned the whole stream of a facade with both caches built and
\* raised; both caches still hold every record.
C13_Witness ==
    /\ ScanFailed(last)
    /\ last.op = "get_var_stats"
    /\ last.scanned = NumRecords
    /\ facades[last.f].has_variants
    /\ facades[last.f].has_var_info
    /\ Len(facades[last.f].variants_) = NumRecords
    /\ Len(facades[last.f].var_info_) = NumRecords

\* Some id of the sequence is repeated or is the missing id.
DuplicateOrEmpty(ids) ==
    HasDuplicates(ids) \/ \E k \in 1..Len(ids) : ids[k] = RecID("missing", k)

\* C14: when an access to variants or var_info builds its table from records
\* whose ids are duplicated or empty, the access completes, the caller is
\* issued a warning, and the table keeps every record scanned.
C14_DuplicateIDsWarn ==
    (/\ last.op \in {"variants", "var_info"}
     /\ last.scanned > 0
     /\ DuplicateOrEmpty(last.ids))
    => /\ last.ok
       /\ last.warnings # {}
       /\ Len(last.rows) = last.scanned

\* extract_vep_annotations failed on its precondition and returned nothing.
PreconditionError(l) ==
    /\ l.op = "extract_vep_annotations"
    /\ ~l.ok
    /\ l.err = "ValueError"
    /\ l.rows = NoRows
    /\ l.made = {}

\* C15 as stated: when the metadata table has no CSQ column,
\* extract_vep_annotations fails with the precondition error, returns no
\* table, and leaves the metadata cache as it was and the stream at its first
\* record.
C15_NoCSQFailsUntouched ==
    [][\A f \in Facades, add_to_info \in BOOLEAN :
          (/\ "CSQ" \notin MetadataColumns(vcf_file)
           /\ Uncounted(extract_vep_annotations(f, add_to_info)))
          => /\ PreconditionError(last')
             /\ MetadataCache(facades'[f]) = MetadataCache(facades[f])
             /\ facades'[f].vcf.pos = 0]_vars
\* C15, amended: when the metadata table has no CSQ column,
\* extract_vep_annotations fails with the precondition error, returns no
\* table, leaves a built metadata cache as it was (an unbuilt one is built in
\* full by the column check), the info cache as it was, and the stream at its
\* first record.
C15_NoCSQFailsAfterBuilding ==
    [][\A f \in Facades, add_to_info \in BOOLEAN :
          (/\ "CSQ" \notin MetadataColumns(vcf_file)
           /\ Uncounted(extract_vep_annotations(f, add_to_info)))
          => /\ PreconditionError(last')
             /\ MetadataCache(facades'[f])
                  = <<TRUE, TableOf(facades[f]),
                      IF facades[f].has_variants THEN facades[f].variants_columns
                      ELSE MetadataColumns(vcf_file)>>
             /\ InfoCache(facades'[f]) = InfoCache(facades[f])
             /\ facades'[f].vcf.pos = 0
             /\ facades'[f].vcf.samples = facades[f].samples]_vars
\* The precondition error was raised on a facade whose cache was built before
\* the call and re-indexed by create_IDs; the table is still complete.
C15_Witness ==
    /\ "CSQ" \notin MetadataColumns(vcf_file)
    /\ PreconditionError(last)
    /\ last.scanned = 0
    /\ Len(facades[last.f].variants_) = NumRecords
    /\ facades[last.f].variants_[1].ID # RecID(vcf_file, 1)
    /\ Pos(last.f) = 0

\* C16: when the metadata table has a CSQ column, extract_vep_annotations
\* returns one row per comma-separated sub-record of each variant's CSQ value,
\* its "|"-separated fields named by the header's schema, keyed by the
\* variant's id, identical rows kept once (a variant with "A|1,B|2" under the
\* schema Gene|Rank gives two rows).
C16_ExplodesAnnotations ==
    [][\A f \in Facades :
          (/\ "CSQ" \in MetadataColumns(vcf_file)
           /\ Live(f) /\ Pos(f) = 0
           /\ TableOf(facades[f]) = FullTable
           /\ Uncounted(extract_vep_annotations(f, FALSE)))
          => /\ last'.ok
             /\ last'.rows = drop_duplicates(NameColumns(SplitFields(Explode(FullTable))))]_vars

\* C17: split and subset in the variant mode fail at once with the
\* not-implemented error: no facade is constructed, nothing is returned, and
\* the stream and the caches of the facade they were called on (and of every
\* other facade) are what they were.
C17_VariantModeNotImplemented ==
    [][\A f \in Facades :
          (/\ last'.f = f
           /\ \/ last'.op = "split" /\ Counted(split(f, "variants"))
              \/ /\ last'.op = "subset"
                 /\ \E ids \in IdLists : Counted(subset(f, "variants", ids)))
          => /\ ~last'.ok
             /\ last'.err = "ValueError"
             /\ last'.f = f
             /\ last'.made = {}
             /\ last'.rows = NoRows
             /\ last'.scanned = 0
             /\ facades' = facades]_vars
\* The variant mode was refused on a derived facade whose cache is built.
C17_Witness ==
    /\ last.op \in {"split", "subset"}
    /\ ~last.ok
    /\ last.err = "ValueError"
    /\ last.f # Root
    /\ facades[last.f].has_variants
    /\ Len(facades[last.f].variants_) = NumRecords

\* C18: between any two calls the stream of every facade stands at its first
\* record, also after a call that raised: var_info, show_genotypes,
\* get_var_stats and save_vcf on an unbuilt facade leave nothing consumed.
C18_StreamAtFirstRecordBetweenCalls ==
    \A f \in Facades : Live(f) => Pos(f) = 0

\* C19: whenever both the metadata cache and the info cache of a facade are
\* built, the index of the info table equals var_ids, in the same order; also
\* when create_IDs ran after var_info was first read.
C19_InfoIndexFollowsVarIDs ==
    \A f \in Facades :
        (Live(f) /\ facades[f].has_variants /\ facades[f].has_var_info)
        => IndexOf(facades[f].var_info_) = IndexOf(facades[f].variants_)
====
